---------------------------- MODULE Spec2Model ----------------------------
(***************************************************************************)
(* State-machine model of the sleigh-sys bridge (src/bridge/bridge.hh,     *)
(* src/bridge/bridge.cc).                                                  *)
(*                                                                         *)
(* Part I  : newDocumentStorage called from several threads (ParseSpec).   *)
(* Part II : the life of one Decompiler handle: newDecompiler, translate,  *)
(*           disassemble, getContext, destruction (Spec).                  *)
(***************************************************************************)
EXTENDS Integers, Sequences, FiniteSets, TLC

(***************************************************************************)
(* Bounds of the model.                                                    *)
(***************************************************************************)
NumThreads == 3
MaxAddr == 1

Threads == 1..NumThreads
NoThread == 0

VARIABLES
  \* ---- Part I: newDocumentStorage ----
  lock,      \* static std::mutex lock: the thread holding it, or NoThread
  tpc,       \* position of each thread inside newDocumentStorage
  s,         \* the argument `s` of each thread's current call
  doc,       \* state of the local `doc` (the DocumentStorage) of each call
  result,    \* what the call handed back to its caller
  \* ---- Part II: one Decompiler handle ----
  hpc,        \* position in newDecompiler / Decompiler() / ~Decompiler()
  dying,      \* why the handle is being torn down: "no", "throw", "drop"
  hostHandle, \* the host holds the unique_ptr<Decompiler>
  ctorError,  \* the last newDecompiler call ended with an exception
  supplier,   \* the host's RustLoadImage object (the byte-supplier)
  mem,        \* what the byte-supplier holds at each address
  proxy,      \* the RustLoadImageProxy object
  lOwner,     \* the unique_ptr that owns the proxy
  specDoc,    \* the DocumentStorage object handed to newDecompiler
  specOwner,  \* the unique_ptr that owns the DocumentStorage
  cfg,        \* content of that DocumentStorage
  context,    \* the embedded ContextInternal: [st, val]
  sleigh,     \* the Sleigh base part: [st, loader, cdb, initialized]
  order,      \* log of member constructions ("+m") and destructions ("-m")
  lastUse,    \* state of each pointee at the engine's last dereference
  cpc,        \* position in the current translate / disassemble call
  kind,       \* "translate" or "disassemble"
  addr,       \* the argument `addr` of the call
  address,    \* the local `address` of the call
  ctxAtCall,  \* value of the context database when the call began
  bytesAtCall, \* what the byte-supplier held at `addr` when the call began
  buf,        \* the bytes the engine obtained through loadFill
  fault,      \* the fault raised by the engine in this call, or "none"
  n,          \* the local `n` of the call
  emitted,    \* number of records the engine has passed to the proxy `p`
  sink,       \* records delivered to the host's sink (`emit`) in this call
  retval,     \* the value returned to the host
  hist        \* outcomes of the earlier calls on this handle

parseVars == <<lock, tpc, s, doc, result>>
lifeVars == <<hpc, dying, hostHandle, ctorError, supplier, proxy, lOwner,
              specDoc, specOwner, cfg, sleigh, order>>
callVars == <<cpc, kind, addr, address, ctxAtCall, bytesAtCall, buf, fault,
              n, emitted, sink, retval, hist>>
handleVars == <<lifeVars, callVars, mem, context, lastUse>>
vars == <<parseVars, handleVars>>

(***************************************************************************)
(* Part I.  newDocumentStorage (bridge.cc:26-36)                           *)
(***************************************************************************)
Texts == {"valid", "malformed"}

\* DocumentStorage::parseDocument raises XmlError on a malformed document.
parseDocumentThrows(text) == text = "malformed"

\* Line 33 is not inside any try block: an exception raised by parseDocument
\* leaves newDocumentStorage; otherwise execution continues with getRoot.
AfterParse_Swallow(thrown) == "getRoot"
AfterParse(thrown) == IF thrown THEN "unwind" ELSE "getRoot"

\* std::lock_guard (line 28): the guard's destructor releases the mutex on
\* every way out of the function, the return and the exceptional one.
GuardRelease_LeakOnThrow(holder, exceptional) == IF exceptional THEN holder ELSE NoThread
GuardRelease(holder, exceptional) == NoThread

\* std::lock_guard's constructor (line 28) blocks until the mutex is free.
GuardMayAcquire_NoLock(holder) == TRUE
GuardMayAcquire(holder) == holder = NoThread

ParseInit ==
  /\ lock = NoThread
  /\ tpc = [t \in Threads |-> "idle"]
  /\ s = [t \in Threads |-> "valid"]
  /\ doc = [t \in Threads |-> "none"]
  /\ result = [t \in Threads |-> "none"]

\* A caller enters newDocumentStorage(s) and reaches the lock_guard.
CallNewDocumentStorage(t) ==
  /\ tpc[t] \in {"idle", "done", "failed"}
  /\ \E text \in Texts : s' = [s EXCEPT ![t] = text]
  /\ tpc' = [tpc EXCEPT ![t] = "lock"]
  /\ result' = [result EXCEPT ![t] = "none"]
  /\ UNCHANGED <<lock, doc, handleVars>>

\* line 28: std::lock_guard<std::mutex> guard(lock);
AcquireGuard(t) ==
  /\ tpc[t] = "lock"
  /\ GuardMayAcquire(lock)
  /\ lock' = t
  /\ tpc' = [tpc EXCEPT ![t] = "create"]
  /\ UNCHANGED <<s, doc, result, handleVars>>

\* line 30: auto doc = make_unique<DocumentStorage>();
CreateStorage(t) ==
  /\ tpc[t] = "create"
  /\ doc' = [doc EXCEPT ![t] = "empty"]
  /\ tpc' = [tpc EXCEPT ![t] = "parse"]
  /\ UNCHANGED <<lock, s, result, handleVars>>

\* lines 31-33: ss << s; doc->parseDocument(ss)
ParseDocument(t) ==
  /\ tpc[t] = "parse"
  /\ LET thrown == parseDocumentThrows(s[t]) IN
       /\ tpc' = [tpc EXCEPT ![t] = AfterParse(thrown)]
       /\ doc' = [doc EXCEPT ![t] = IF thrown THEN "empty" ELSE "parsed"]
  /\ UNCHANGED <<lock, s, result, handleVars>>

\* line 33: ->getRoot()
GetRoot(t) ==
  /\ tpc[t] = "getRoot"
  /\ tpc' = [tpc EXCEPT ![t] = "register"]
  /\ UNCHANGED <<lock, s, doc, result, handleVars>>

\* line 34: doc->registerTag(root);
RegisterTag(t) ==
  /\ tpc[t] = "register"
  /\ doc' = [doc EXCEPT ![t] = IF doc[t] = "parsed" THEN "registered" ELSE "corrupt"]
  /\ tpc' = [tpc EXCEPT ![t] = "return"]
  /\ UNCHANGED <<lock, s, result, handleVars>>

\* line 35: return doc;  then the locals die: ss, the moved-from doc, guard.
ReturnDoc(t) ==
  /\ tpc[t] = "return"
  /\ result' = [result EXCEPT ![t] = doc[t]]
  /\ doc' = [doc EXCEPT ![t] = "none"]
  /\ lock' = GuardRelease(lock, FALSE)
  /\ tpc' = [tpc EXCEPT ![t] = "done"]
  /\ UNCHANGED <<s, handleVars>>

\* The exception unwinds the frame: ss, doc (the storage is freed) and guard
\* are destroyed and the error reaches the caller.
Unwind(t) ==
  /\ tpc[t] = "unwind"
  /\ doc' = [doc EXCEPT ![t] = "none"]
  /\ result' = [result EXCEPT ![t] = "error"]
  /\ lock' = GuardRelease(lock, TRUE)
  /\ tpc' = [tpc EXCEPT ![t] = "failed"]
  /\ UNCHANGED <<s, handleVars>>

ThreadStep(t) ==
  \/ AcquireGuard(t)
  \/ CreateStorage(t)
  \/ ParseDocument(t)
  \/ GetRoot(t)
  \/ RegisterTag(t)
  \/ ReturnDoc(t)
  \/ Unwind(t)

ParseNext == \E t \in Threads : CallNewDocumentStorage(t) \/ ThreadStep(t)

(***************************************************************************)
(* Part II.  The engine as the bridge sees it.                             *)
(***************************************************************************)
Addrs == 0..MaxAddr
Cells == {"NOP", "MODE", "BAD", "UNIMPL", "FAIL"}
CtxVals == {0, 1}
Configs == {"good", "missingTag"}
Faults == {"BadData", "Unimpl", "fill"}

\* An absent VarnodeData pointer, and a present one.
NullVarnode == [null |-> TRUE]
Varnode(sp, off, sz) == [null |-> FALSE, space |-> sp, offset |-> off, size |-> sz]

\* A micro-operation as the engine passes it to PcodeEmit::dump.
PcodeOp(ia, opc, outvar, invars) ==
  [addr |-> ia, opc |-> opc, outvar |-> outvar, vars |-> invars, isize |-> Len(invars)]

\* Numeric values of the engine's OpCode enumeration (opcodes.hh); all of
\* them are small and non-negative, so (uint32_t)opc is that same number.
OpCodeValue(opc) ==
  CASE opc = "CPUI_COPY" -> 1
    [] opc = "CPUI_STORE" -> 3
    [] opc = "CPUI_INT_ADD" -> 19

\* Sleigh::oneInstruction on the bytes `cell` under context value `ctxv`:
\* the fault it raises (or "none"), the length it reports, and the
\* operations it emits before returning or raising.
oneInstruction(ctxv, cell, ia) ==
  CASE cell = "NOP" ->
         [fault |-> "none", len |-> 1, ops |-> <<>>]
    [] cell = "MODE" /\ ctxv = 0 ->
         [fault |-> "none", len |-> 2,
          ops |-> << PcodeOp(ia, "CPUI_COPY", Varnode("register", 0, 4),
                             << Varnode("const", 1, 4) >>),
                     PcodeOp(ia, "CPUI_STORE", NullVarnode,
                             << Varnode("const", 0, 4), Varnode("register", 0, 4),
                                Varnode("register", 4, 4) >>) >>]
    [] cell = "MODE" /\ ctxv # 0 ->
         [fault |-> "none", len |-> 4,
          ops |-> << PcodeOp(ia, "CPUI_INT_ADD", Varnode("register", 0, 0),
                             << Varnode("register", 0, 4), Varnode("const", 1, 4) >>) >>]
    [] cell = "UNIMPL" ->
         [fault |-> "Unimpl", len |-> 0,
          ops |-> << PcodeOp(ia, "CPUI_COPY", Varnode("unique", 0, 4),
                             << Varnode("register", 0, 4) >>) >>]
    [] OTHER ->
         [fault |-> "BadData", len |-> 0, ops |-> <<>>]

\* Sleigh::printAssembly: the fault, the length and the one text record.
printAssembly(ctxv, cell, ia) ==
  CASE cell = "NOP" ->
         [fault |-> "none", len |-> 1,
          ops |-> << [addr |-> ia, mnem |-> "nop", body |-> ""] >>]
    [] cell = "MODE" /\ ctxv = 0 ->
         [fault |-> "none", len |-> 2,
          ops |-> << [addr |-> ia, mnem |-> "mov", body |-> "r0, 1" ] >>]
    [] cell = "MODE" /\ ctxv # 0 ->
         [fault |-> "none", len |-> 4,
          ops |-> << [addr |-> ia, mnem |-> "add", body |-> "r0, r0, 1"] >>]
    [] cell = "UNIMPL" ->
         [fault |-> "none", len |-> 1,
          ops |-> << [addr |-> ia, mnem |-> "unimpl", body |-> ""] >>]
    [] OTHER ->
         [fault |-> "BadData", len |-> 0, ops |-> <<>>]

\* The engine's decode step of the call in progress.
EngineDecode(k, ctxv, cell, ia) ==
  IF k = "translate" THEN oneInstruction(ctxv, cell, ia)
  ELSE printAssembly(ctxv, cell, ia)

\* Sleigh::initialize fails when the document lacks what it needs.
initializeThrows(config) == config # "good"

\* Which pointers the engine part dereferences at each kind of step: the
\* Sleigh constructor only stores them, the destructor frees its own caches.
EngineDerefs(step) ==
  CASE step = "initialize" -> {"cdb"}
    [] step = "fill" -> {"loader", "cdb"}
    [] OTHER -> {}

(***************************************************************************)
(* Part II.  The bridge's own code.                                        *)
(***************************************************************************)
\* getDefaultCodeSpace() of the handle.
DefaultCodeSpace == "ram"

\* bridge.cc:54 / :66   Address(this->getDefaultCodeSpace(), addr)
MakeAddress(a) == [space |-> DefaultCodeSpace, offset |-> a]

\* bridge.cc:56 / :68   int32_t n = 0;   (prev: what an earlier call left)
InitialN_Stale(prev) == prev
InitialN(prev) == 0

\* bridge.cc:58 / :70   n = this->oneInstruction(p, address);
AssignN_Flag(len) == IF len > 0 THEN 1 ELSE 0
AssignN(len) == len

\* bridge.cc:59 / :71   catch (...) : every fault is caught.
Caught_EngineOnly(f) == f # "fill"
Caught(f) == TRUE

\* bridge.cc:59-61 / :71-73   the handler's body is empty: the handle's
\* position is what it was.
AfterCatch_Poison(pos, f) == IF f # "none" THEN "closed" ELSE pos
AfterCatch(pos, f) == pos

\* bridge.cc:38-41   RustLoadImageProxy::loadFill forwards the request to
\* the host's byte-supplier: what comes back for the address `at`.
loadFill(image, at) == image[at.offset]

\* bridge.cc:47-51   RustPCodeEmitProxy::dump
\*   inner->dump(addr, (uint32_t)opc, outvar, vars, isize)
dump_ZeroOut(op) ==
  [addr |-> op.addr, opc |-> OpCodeValue(op.opc),
   outvar |-> IF op.outvar.null THEN Varnode("const", 0, 0) ELSE op.outvar,
   vars |-> op.vars, isize |-> op.isize]
dump(op) ==
  [addr |-> op.addr, opc |-> OpCodeValue(op.opc),
   outvar |-> op.outvar, vars |-> op.vars, isize |-> op.isize]

\* bridge.cc:79-82   RustAssemblyEmitProxy::dump
asmDump(rec) == [addr |-> rec.addr, mnem |-> rec.mnem, body |-> rec.body]

\* What the proxy `p` of the call hands to the sink for one engine record.
Deliver(k, rec) == IF k = "translate" THEN << dump(rec) >> ELSE << asmDump(rec) >>

\* bridge.hh:53   loadImage(move(loadImage)): the member becomes the owner.
MoveLoadImage_Borrow(owner) == owner
MoveLoadImage(owner) == "member"

\* bridge.hh:54   spec(move(spec))
MoveSpec(owner) == "member"

\* bridge.hh:55   this->initialize(*this->spec) is not inside a try block.
AfterInitialize_Swallow(thrown) == "constructed"
AfterInitialize(thrown) == IF thrown THEN "dContext" ELSE "constructed"

\* A unique_ptr going out of scope destroys the object it still owns.
Release(obj, owner, dyingOwners) == IF owner \in dyingOwners THEN "destroyed" ELSE obj


\* bridge.hh:32-43   RustLoadImageProxy declares no destructor: destroying
\* the proxy leaves the host's byte-supplier (`inner`) as it is.
ProxyDestructor(sup) == sup

\* The byte-supplier after a step that takes the proxy from `before` to `after`.
SupplierAfter(before, after) ==
  IF before = "alive" /\ after = "destroyed" THEN ProxyDestructor(supplier) ELSE supplier

\* The state of the object behind each pointer the engine part holds.
Pointee(ptr) ==
  CASE ptr = "loader" -> IF sleigh.loader = "proxy" THEN proxy ELSE "null"
    [] ptr = "cdb" -> IF sleigh.cdb = "context" THEN context.st ELSE "null"
    [] ptr = "inner" -> supplier

\* lastUse after the engine part ran `step`.
Use(step) ==
  [ptr \in {"loader", "cdb", "inner"} |->
     IF ptr \in EngineDerefs(step) THEN Pointee(ptr) ELSE lastUse[ptr]]

NoCall ==
  /\ cpc = "idle"
  /\ kind = "translate"
  /\ addr = 0
  /\ address = [space |-> DefaultCodeSpace, offset |-> 0]
  /\ ctxAtCall = 0
  /\ bytesAtCall = "NOP"
  /\ buf = "NOP"
  /\ fault = "none"
  /\ n = 0
  /\ emitted = 0
  /\ sink = <<>>
  /\ retval = 0
  /\ hist = {}

HandleInit ==
  /\ hpc = "none"
  /\ dying = "no"
  /\ hostHandle = FALSE
  /\ ctorError = FALSE
  /\ supplier = "alive"
  /\ mem \in [Addrs -> Cells]
  /\ proxy = "none"
  /\ lOwner = "none"
  /\ specDoc = "none"
  /\ specOwner = "none"
  /\ cfg = "good"
  /\ context = [st |-> "none", val |-> 0]
  /\ sleigh = [st |-> "none", loader |-> "null", cdb |-> "null",
               initialized |-> FALSE, initFrom |-> "none"]
  /\ order = <<>>
  /\ lastUse = [ptr \in {"loader", "cdb", "inner"} |-> "unused"]
  /\ NoCall

(***************************************************************************)
(* newDecompiler (bridge.cc:6-10) and Decompiler::Decompiler               *)
(* (bridge.hh:52-56)                                                       *)
(***************************************************************************)
\* bridge.cc:8   auto l = unique_ptr<LoadImage>(new RustLoadImageProxy(loadImage));
\* The host passes in a DocumentStorage it owns (`spec`).
newDecompiler(c) ==
  /\ hpc = "none"
  /\ hpc' = "proxy"
  /\ proxy' = "alive"
  /\ lOwner' = "l"
  /\ specDoc' = "alive"
  /\ specOwner' = "param"
  /\ cfg' = c
  /\ ctorError' = FALSE
  /\ context' = [st |-> "none", val |-> 0]
  /\ sleigh' = [st |-> "none", loader |-> "null", cdb |-> "null",
                initialized |-> FALSE, initFrom |-> "none"]
  /\ order' = <<>>
  /\ lastUse' = [ptr \in {"loader", "cdb", "inner"} |-> "unused"]
  /\ cpc' = "idle"
  /\ kind' = "translate"
  /\ addr' = 0
  /\ address' = [space |-> DefaultCodeSpace, offset |-> 0]
  /\ ctxAtCall' = 0
  /\ bytesAtCall' = "NOP"
  /\ buf' = "NOP"
  /\ fault' = "none"
  /\ n' = 0
  /\ emitted' = 0
  /\ sink' = <<>>
  /\ retval' = 0
  /\ hist' = {}
  /\ UNCHANGED <<dying, hostHandle, supplier, mem,
                 parseVars>>

\* bridge.cc:9 make_unique<Decompiler>(move(l), move(spec)), then
\* bridge.hh:53   Sleigh(loadImage.get(), &this->context)
BaseCtor ==
  /\ hpc = "proxy"
  /\ hpc' = "base"
  /\ lOwner' = "param"
  /\ sleigh' = [sleigh EXCEPT !.st = "alive", !.loader = "proxy", !.cdb = "context"]
  /\ lastUse' = Use("construct")
  /\ UNCHANGED <<dying, hostHandle, ctorError, supplier, proxy, specDoc,
                 specOwner, cfg, order, callVars, mem, context,
                 parseVars>>

\* bridge.hh:53   loadImage(move(loadImage))
MemberLoadImage ==
  /\ hpc = "base"
  /\ hpc' = "mLoadImage"
  /\ lOwner' = MoveLoadImage(lOwner)
  /\ order' = Append(order, "+loadImage")
  /\ UNCHANGED <<dying, hostHandle, ctorError, supplier, proxy, specDoc,
                 specOwner, cfg, sleigh, callVars, mem, context, lastUse,
                 parseVars>>

\* bridge.hh:54   spec(move(spec))
MemberSpec ==
  /\ hpc = "mLoadImage"
  /\ hpc' = "mSpec"
  /\ specOwner' = MoveSpec(specOwner)
  /\ order' = Append(order, "+spec")
  /\ UNCHANGED <<dying, hostHandle, ctorError, supplier, proxy, lOwner,
                 specDoc, cfg, sleigh, callVars, mem, context, lastUse,
                 parseVars>>

\* bridge.hh:49   ContextInternal context;  (default-constructed last)
MemberContext ==
  /\ hpc = "mSpec"
  /\ hpc' = "mContext"
  /\ context' = [st |-> "alive", val |-> 0]
  /\ order' = Append(order, "+context")
  /\ UNCHANGED <<dying, hostHandle, ctorError, supplier, proxy, lOwner,
                 specDoc, specOwner, cfg, sleigh, callVars, mem, lastUse,
                 parseVars>>

\* bridge.hh:55   this->initialize(*this->spec);
Initialize ==
  /\ hpc = "mContext"
  /\ LET thrown == initializeThrows(cfg) IN
       /\ hpc' = AfterInitialize(thrown)
       /\ dying' = IF AfterInitialize(thrown) = "dContext" THEN "throw" ELSE "no"
       /\ sleigh' = [sleigh EXCEPT
                       !.initialized = ~thrown,
                       !.initFrom = IF specOwner = "member" THEN specDoc ELSE "null"]
  /\ lastUse' = Use("initialize")
  /\ UNCHANGED <<hostHandle, ctorError, supplier, proxy, lOwner, specDoc,
                 specOwner, cfg, order, callVars, mem, context,
                 parseVars>>

\* bridge.cc:9-10   the constructor returns, the parameters and `l` go out
\* of scope, and the host receives the unique_ptr<Decompiler>.
ReturnHandle ==
  /\ hpc = "constructed"
  /\ hpc' = "ready"
  /\ hostHandle' = TRUE
  /\ proxy' = Release(proxy, lOwner, {"l", "param"})
  /\ specDoc' = Release(specDoc, specOwner, {"param"})
  /\ supplier' = SupplierAfter(proxy, Release(proxy, lOwner, {"l", "param"}))
  /\ UNCHANGED <<dying, ctorError, lOwner, specOwner, cfg, sleigh, order,
                 callVars, mem, context, lastUse,
                 parseVars>>

(***************************************************************************)
(* ~Decompiler (bridge.hh:45-50): the members die in the reverse of their  *)
(* declaration order, then the Sleigh base.  The same sequence runs when   *)
(* the constructor body throws.                                            *)
(***************************************************************************)
\* The host drops its unique_ptr<Decompiler>.
DropHandle ==
  /\ hostHandle
  /\ hpc = "ready"
  /\ cpc \in {"idle", "returned"}
  /\ hostHandle' = FALSE
  /\ dying' = "drop"
  /\ hpc' = "dContext"
  /\ UNCHANGED <<ctorError, supplier, proxy, lOwner, specDoc, specOwner, cfg,
                 sleigh, order, callVars, mem, context, lastUse,
                 parseVars>>

DestroyContext ==
  /\ hpc = "dContext"
  /\ hpc' = "dSpec"
  /\ context' = [context EXCEPT !.st = "destroyed"]
  /\ order' = Append(order, "-context")
  /\ UNCHANGED <<dying, hostHandle, ctorError, supplier, proxy, lOwner,
                 specDoc, specOwner, cfg, sleigh, callVars, mem, lastUse,
                 parseVars>>

DestroySpec ==
  /\ hpc = "dSpec"
  /\ hpc' = "dLoadImage"
  /\ specDoc' = Release(specDoc, specOwner, {"member"})
  /\ order' = Append(order, "-spec")
  /\ UNCHANGED <<dying, hostHandle, ctorError, supplier, proxy, lOwner,
                 specOwner, cfg, sleigh, callVars, mem, context, lastUse,
                 parseVars>>

DestroyLoadImage ==
  /\ hpc = "dLoadImage"
  /\ hpc' = "dBase"
  /\ proxy' = Release(proxy, lOwner, {"member"})
  /\ supplier' = SupplierAfter(proxy, Release(proxy, lOwner, {"member"}))
  /\ order' = Append(order, "-loadImage")
  /\ UNCHANGED <<dying, hostHandle, ctorError, lOwner, specDoc, specOwner,
                 cfg, sleigh, callVars, mem, context, lastUse,
                 parseVars>>

\* ~Sleigh; after a throwing constructor the parameters and `l` die too and
\* the exception leaves newDecompiler.
DestroyBase ==
  /\ hpc = "dBase"
  /\ hpc' = "none"
  /\ dying' = "no"
  /\ sleigh' = [sleigh EXCEPT !.st = "destroyed"]
  /\ lastUse' = Use("destroy")
  /\ ctorError' = (dying = "throw")
  /\ LET gone == IF dying = "throw" THEN {"l", "param"} ELSE {} IN
       /\ proxy' = Release(proxy, lOwner, gone)
       /\ specDoc' = Release(specDoc, specOwner, gone)
       /\ supplier' = SupplierAfter(proxy, Release(proxy, lOwner, gone))
  /\ UNCHANGED <<hostHandle, lOwner, specOwner, cfg, order, callVars, mem,
                 context,
                 parseVars>>


(***************************************************************************)
(* Decompiler::translate (bridge.cc:53-63), Decompiler::disassemble        *)
(* (bridge.cc:65-75), getContext (bridge.hh:59)                            *)
(***************************************************************************)
\* Outcome of the call that has just returned, if any.
Outcome == IF cpc = "returned" THEN {IF fault = "none" THEN "ok" ELSE "fault"} ELSE {}

\* lines 54-56 / 66-68: address, the proxy p around a fresh sink, n = 0.
BeginCall(a) ==
  /\ hostHandle
  /\ hpc = "ready"
  /\ cpc \in {"idle", "returned"}
  /\ cpc' = "fetch"
  /\ addr' = a
  /\ address' = MakeAddress(a)
  /\ n' = InitialN(n)
  /\ ctxAtCall' = context.val
  /\ bytesAtCall' = mem[a]
  /\ buf' = "NOP"
  /\ fault' = "none"
  /\ emitted' = 0
  /\ sink' = <<>>
  /\ retval' = 0
  /\ hist' = hist \cup Outcome
  /\ UNCHANGED <<lifeVars, mem, context, lastUse, parseVars>>

\* bridge.cc:53   int32_t Decompiler::translate(RustPCodeEmit *emit, uint64_t addr)
translate(a) ==
  /\ kind' = "translate"
  /\ BeginCall(a)

\* bridge.cc:65   int32_t Decompiler::disassemble(RustAssemblyEmit *emit, uint64_t addr)
disassemble(a) ==
  /\ kind' = "disassemble"
  /\ BeginCall(a)

\* The engine fetches the instruction bytes: LoadImage::loadFill on its
\* loader pointer, which RustLoadImageProxy::loadFill (bridge.cc:38-41)
\* forwards to the host.  A supplier that fails raises out of the engine.
EngineFill ==
  /\ cpc = "fetch"
  /\ lastUse' = [Use("fill") EXCEPT !["inner"] = Pointee("inner")]
  /\ LET cell == loadFill(mem, address) IN
       IF cell = "FAIL"
       THEN /\ fault' = "fill"
            /\ cpc' = IF Caught("fill") THEN "ret" ELSE "escaped"
            /\ buf' = buf
       ELSE /\ fault' = fault
            /\ cpc' = "emit"
            /\ buf' = cell
  /\ UNCHANGED <<lifeVars, kind, addr, address, ctxAtCall, bytesAtCall, n,
                 emitted, sink, retval,
                 hist, mem, context,
                 parseVars>>

\* The engine's decode of the bytes it fetched, under the current context.
Plan == EngineDecode(kind, context.val, buf, address)

\* The engine passes its next record to p.dump, which forwards it.
EngineEmit ==
  /\ cpc = "emit"
  /\ emitted < Len(Plan.ops)
  /\ sink' = sink \o Deliver(kind, Plan.ops[emitted + 1])
  /\ emitted' = emitted + 1
  /\ UNCHANGED <<lifeVars, cpc, kind, addr, address, ctxAtCall, bytesAtCall,
                 buf, fault, n,
                 retval, hist, mem, context, lastUse,
                 parseVars>>

\* lines 57-61 / 69-73: the decode step returns its length, which is
\* assigned to n, or raises, which the handler catches.
EngineFinish ==
  /\ cpc = "emit"
  /\ emitted = Len(Plan.ops)
  /\ IF Plan.fault = "none"
     THEN /\ n' = AssignN(Plan.len)
          /\ cpc' = "ret"
          /\ fault' = "none"
     ELSE /\ n' = n
          /\ cpc' = IF Caught(Plan.fault) THEN "ret" ELSE "escaped"
          /\ fault' = Plan.fault
  /\ UNCHANGED <<lifeVars, kind, addr, address, ctxAtCall, bytesAtCall, buf,
                 emitted, sink,
                 retval, hist, mem, context, lastUse,
                 parseVars>>

\* line 62 / 74: return n;
ReturnN ==
  /\ cpc = "ret"
  /\ cpc' = "returned"
  /\ retval' = n
  /\ hpc' = AfterCatch(hpc, fault)
  /\ UNCHANGED <<dying, hostHandle, ctorError, supplier, proxy, lOwner,
                 specDoc, specOwner, cfg, sleigh, order, kind, addr, address,
                 ctxAtCall, bytesAtCall, buf, fault, n, emitted, sink, hist, mem, context,
                 lastUse,
                 parseVars>>

\* bridge.hh:59   the host writes the context database through getContext().
SetContext(v) ==
  /\ hostHandle
  /\ hpc = "ready"
  /\ cpc \in {"idle", "returned"}
  /\ v # context.val
  /\ context' = [context EXCEPT !.val = v]
  /\ UNCHANGED <<lifeVars, callVars, mem, lastUse,
                 parseVars>>

\* The host changes what its byte-supplier holds at an address; the host
\* is synchronous, so not while a call is inside the engine.
HostWrite(a, c) ==
  /\ cpc \in {"idle", "returned"}
  /\ c # mem[a]
  /\ mem' = [mem EXCEPT ![a] = c]
  /\ UNCHANGED <<lifeVars, callVars, context, lastUse, parseVars>>

(***************************************************************************)
(* Specifications                                                          *)
(***************************************************************************)
Init == ParseInit /\ HandleInit

Construct ==
  \/ \E c \in Configs : newDecompiler(c)
  \/ BaseCtor
  \/ MemberLoadImage
  \/ MemberSpec
  \/ MemberContext
  \/ Initialize
  \/ ReturnHandle

Destroy ==
  \/ DropHandle
  \/ DestroyContext
  \/ DestroySpec
  \/ DestroyLoadImage
  \/ DestroyBase

Call ==
  \/ \E a \in Addrs : translate(a)
  \/ \E a \in Addrs : disassemble(a)
  \/ EngineFill
  \/ EngineEmit
  \/ EngineFinish
  \/ ReturnN
  \/ \E v \in CtxVals : SetContext(v)
  \/ \E a \in Addrs, c \in Cells : HostWrite(a, c)

HandleNext == Construct \/ Destroy \/ Call

\* The handle: construction, calls, destruction.
Next == HandleNext

Spec == Init /\ [][Next]_vars

\* newDocumentStorage under concurrent callers (no handle is involved).
ParseSpecInit == Init /\ mem = [a \in Addrs |-> "NOP"]

ParseSpec == ParseSpecInit /\ [][ParseNext]_vars

\* ... with a fair scheduler and a mutex that serves every waiter.
ParseFairness ==
  \A t \in Threads :
    /\ SF_vars(AcquireGuard(t))
    /\ WF_vars(CreateStorage(t) \/ ParseDocument(t) \/ GetRoot(t)
               \/ RegisterTag(t) \/ ReturnDoc(t) \/ Unwind(t))

FairParseSpec == ParseSpec /\ ParseFairness


(***************************************************************************)
(* Properties                                                              *)
(***************************************************************************)
Running == cpc \in {"fetch", "emit", "ret"}

\* The address the host asked for, in the handle's default code space.
Requested == [space |-> DefaultCodeSpace, offset |-> addr]

\* What the engine does with the bytes at the requested address under the
\* context the call began with.
Decoded == EngineDecode(kind, ctxAtCall, bytesAtCall, Requested)

\* The byte-supplier fails at the requested address.
FillFails == bytesAtCall = "FAIL"

\* The engine's decode step ran to its end without a fault.
DecodeCompleted == ~FillFails /\ Decoded.fault = "none"

\* C1: a translate or disassemble call in which the engine's decode step
\* raises (bad encoding, unimplemented construct, failing fill), at whatever
\* point, returns 0, and no fault ever leaves the call.
C1_FaultReturnsZero ==
  /\ cpc # "escaped"
  /\ (cpc = "returned" /\ (FillFails \/ Decoded.fault # "none")) => retval = 0

\* A call that raised after the engine had already emitted an operation
\* has returned 0.
C1_Witness ==
  /\ cpc = "returned"
  /\ fault = "Unimpl"
  /\ emitted > 0
  /\ retval = 0

\* C2: at most one thread at a time is between the creation of its storage
\* and its way out of newDocumentStorage, and that thread holds the lock.
InParseAndRegister == {"create", "parse", "getRoot", "register", "return", "unwind"}

C2_ParseSerialized ==
  /\ Cardinality({t \in Threads : tpc[t] \in InParseAndRegister}) <= 1
  /\ \A t \in Threads : tpc[t] \in InParseAndRegister => lock = t

\* One thread is registering its root while two others wait for the lock.
C2_Witness ==
  \E t \in Threads :
    /\ tpc[t] = "register"
    /\ Cardinality({u \in Threads : tpc[u] = "lock"}) >= 2

\* C3: a call given malformed text ends with an error at the caller and
\* hands back no storage; the parse failure is never turned into a storage.
C3_ParseErrorPropagates ==
  \A t \in Threads :
    /\ s[t] = "malformed" => /\ result[t] \in {"none", "error"}
                             /\ tpc[t] \notin {"getRoot", "register", "return", "done"}
    /\ tpc[t] = "failed" => result[t] = "error" /\ doc[t] = "none"
    /\ tpc[t] = "done" => result[t] = "registered"

\* A call on malformed text has failed with an error.
C3_Witness ==
  \E t \in Threads :
    /\ s[t] = "malformed"
    /\ tpc[t] = "failed"
    /\ result[t] = "error"

\* C4: the host holds a handle only if initialize completed successfully on
\* the configuration the handle owns; a failed initialization yields none.
C4_HandleOnlyWhenInitialized ==
  /\ hostHandle => /\ sleigh.initialized
                   /\ sleigh.initFrom = "alive"
                   /\ specOwner = "member"
                   /\ ~initializeThrows(cfg)
  /\ ctorError => ~hostHandle

\* newDecompiler on a configuration missing its tag has ended with an
\* exception and the host holds nothing.
C4_Witness ==
  /\ cfg = "missingTag"
  /\ ctorError
  /\ hpc = "none"
  /\ ~hostHandle

\* C5: as long as the host holds the handle it is ready, whatever calls it
\* has served, faulted ones included; every call is accepted, and starts
\* from the same call-local state as the first call on the handle.
C5_StaysReady ==
  /\ hostHandle => hpc = "ready"
  /\ (hostHandle /\ ~Running) =>
       \A a \in Addrs : ENABLED translate(a) /\ ENABLED disassemble(a)
  /\ cpc = "fetch" => n = 0 /\ emitted = 0 /\ sink = <<>> /\ fault = "none"

\* After a faulted call the same handle has decoded an instruction.
C5_Witness ==
  /\ hostHandle
  /\ "fault" \in hist
  /\ cpc = "returned"
  /\ fault = "none"
  /\ retval > 0

\* What a translate / disassemble call hands back, as a function of the
\* context value, the bytes at the address, and the address alone.
ExpectedLength(k, ctxv, cell, at) ==
  IF cell = "FAIL" THEN 0
  ELSE LET d == EngineDecode(k, ctxv, cell, at) IN
         IF d.fault = "none" THEN d.len ELSE 0

ExpectedRecords(k, ctxv, cell, at) ==
  IF cell = "FAIL" THEN <<>> ELSE EngineDecode(k, ctxv, cell, at).ops

\* The records of `recs` as the call's proxy delivers them.
Forwarded(k, recs) == [i \in 1..Len(recs) |-> Deliver(k, recs[i])[1]]

C7_ReturnsEngineLength ==
  cpc = "returned" =>
    /\ DecodeCompleted => retval = Decoded.len
    /\ retval = 0 => (~DecodeCompleted \/ Decoded.len = 0)

\* A mode-dependent instruction decoded under the second context value.
C7_Witness ==
  /\ cpc = "returned"
  /\ addr > 0
  /\ ctxAtCall = 1
  /\ bytesAtCall = "MODE"
  /\ retval = 4

\* The operations the engine has passed to the proxy so far in this call.
EnginePassed == SubSeq(oneInstruction(ctxAtCall, buf, address).ops, 1, emitted)

\* C8: in a translate call the sink holds, in the engine's order and once
\* each, exactly the operations the engine has passed to the proxy: same
\* address, the opcode's number, same inputs and count, an absent output
\* still absent; after the return nothing more arrives.
C8_DumpForwardsFaithfully ==
  kind = "translate" =>
    /\ Len(sink) = emitted
    /\ \A i \in 1..Len(sink) :
         /\ sink[i].addr = EnginePassed[i].addr
         /\ sink[i].opc = OpCodeValue(EnginePassed[i].opc)
         /\ sink[i].outvar.null = EnginePassed[i].outvar.null
         /\ sink[i].outvar = EnginePassed[i].outvar
         /\ sink[i].vars = EnginePassed[i].vars
         /\ sink[i].isize = EnginePassed[i].isize
    /\ cpc = "returned" => emitted = Len(ExpectedRecords(kind, ctxAtCall, bytesAtCall, Requested))

\* A returned translate delivered two operations, the second without output.
C8_Witness ==
  /\ kind = "translate"
  /\ cpc = "returned"
  /\ Len(sink) = 2
  /\ sink[2].outvar.null
  /\ ~sink[1].outvar.null

RECURSIVE Reverse(_)
Reverse(q) == IF q = <<>> THEN <<>> ELSE Append(Reverse(Tail(q)), Head(q))

\* The members named by the log entries that start with `sign`.
RECURSIVE Named(_, _)
Named(q, sign) ==
  IF q = <<>> THEN <<>>
  ELSE LET e == Head(q)
           m == CASE e \in {"+loadImage", "-loadImage"} -> "loadImage"
                  [] e \in {"+spec", "-spec"} -> "spec"
                  [] OTHER -> "context"
       IN IF e \in {sign \o "loadImage", sign \o "spec", sign \o "context"}
          THEN <<m>> \o Named(Tail(q), sign)
          ELSE Named(Tail(q), sign)

IsPrefix(p, q) == Len(p) <= Len(q) /\ SubSeq(q, 1, Len(p)) = p

C10_LockAlwaysReleased ==
  /\ [](\A t \in Threads : tpc[t] \in {"idle", "lock", "done", "failed"} => lock # t)
  /\ []((\A t \in Threads : tpc[t] \notin InParseAndRegister) => lock = NoThread)
  /\ \A t \in Threads : (tpc[t] = "lock") ~> (tpc[t] \in {"done", "failed"})

\* After one thread's parse failed, another thread is inside with the lock.
C10_Witness ==
  \E t, u \in Threads :
    /\ tpc[t] = "failed"
    /\ tpc[u] = "register"
    /\ lock = u

=============================================================================
